---- MODULE Spec2Model ----
(***************************************************************************)
(* Model of SkydomeCapture.py: render_horizontal_strip and its helpers     *)
(* setup_camera, set_render_settings, set_output_path and the nested       *)
(* compose_with_nodes.  The script is one sequential procedure; pc is the  *)
(* position in it.  The host application (scene objects, image datablocks, *)
(* compositor node tree, render settings, file system directory state) is  *)
(* the rest of the state.                                                  *)
(***************************************************************************)
EXTENDS Integers, Sequences, FiniteSets, TLC

\* ---------------------------------------------------------------- bounds
\* At most this many objects / image datablocks exist before the run.
MaxInitialObjects == 2
MaxInitialImages == 2

\* --------------------------------------------------------- configuration
resolution_x == 6144
resolution_y == 1024
tile_size == 1024

\* A path is [rel, parts]: rel is TRUE for a "//"-prefixed (blend-file
\* relative) path, parts is the sequence of its components.  A component
\* (directory or file name) is a sequence of string tokens, so that a file
\* name can be split into stem and extension and rebuilt by formatting.
BlendDir == << <<"project">> >>
Extensions == {".png"}
output_dir == [rel |-> TRUE, parts |-> << <<"skydome_output">> >>]
output_filename == <<"horizontal_strip", ".png">>
BaseDirPath == [rel |-> TRUE, parts |-> << >>]
EmptyPath == [rel |-> FALSE, parts |-> << >>]

\* bpy.path.abspath: expands the "//" prefix to the blend file's directory.
abspath(p) == IF p.rel THEN [rel |-> FALSE, parts |-> BlendDir \o p.parts] ELSE p

\* os.path.join(dir, name)
join(d, name) == [rel |-> d.rel, parts |-> Append(d.parts, name)]

\* os.path.dirname(path)
dirname(p) == [rel |-> p.rel, parts |-> SubSeq(p.parts, 1, Len(p.parts) - 1)]

\* os.path.basename(path)
basename(p) == p.parts[Len(p.parts)]

\* os.path.splitext(name): <<stem, ext>>, ext = "" when there is none.
splitext(name) ==
    IF Len(name) > 1 /\ name[Len(name)] \in Extensions
    THEN <<SubSeq(name, 1, Len(name) - 1), name[Len(name)]>>
    ELSE <<name, "">>

\* A view file name that leaves the view's name out.
view_filename_mut(vname, ext) ==
    IF ext = "" THEN <<"view_">> ELSE <<"view_", ext>>

\* f"view_{view['name']}{output_ext}"
view_filename(vname, ext) ==
    IF ext = "" THEN <<"view_", vname>> ELSE <<"view_", vname, ext>>

\* f"Camera_{view['name']}"
cam_name(vname) == <<"Camera_", vname>>

\* A directions list that lost its last view.
directions_mut ==
    << [name |-> "X+", rot |-> <<1, 0, -1>>],
       [name |-> "X-", rot |-> <<1, 0, 1>>],
       [name |-> "Y+", rot |-> <<2, 0, 0>>],
       [name |-> "Y-", rot |-> <<0, 0, 0>>],
       [name |-> "Z+", rot |-> <<1, 0, 0>>] >>

\* The six views, in render order.  Rotations are Euler XYZ in units of pi/2.
directions ==
    << [name |-> "X+", rot |-> <<1, 0, -1>>],
       [name |-> "X-", rot |-> <<1, 0, 1>>],
       [name |-> "Y+", rot |-> <<2, 0, 0>>],
       [name |-> "Y-", rot |-> <<0, 0, 0>>],
       [name |-> "Z+", rot |-> <<1, 0, 0>>],
       [name |-> "Z-", rot |-> <<1, 0, 2>>] >>

\* An offset measured from the canvas centre to the tile's left edge.
TranslateX_mut(i) == (i * tile_size) - (resolution_x \div 2)

\* An offset computed with a 1-based tile index.
TranslateX_shift(i) == ((i + 1) * tile_size) - 2560

\* X offset written to the Translate node of tile i (0-based).
TranslateX(i) == (i * tile_size) - 2560

\* -------------------------------------------------- the host before a run
\* Objects that may be in the scene before the run.
CandidateObjects ==
    { [id |-> 1, name |-> <<"Camera">>, type |-> "CAMERA"],
      [id |-> 2, name |-> cam_name("X+"), type |-> "CAMERA"],
      [id |-> 3, name |-> cam_name("Z-"), type |-> "CAMERA"],
      [id |-> 4, name |-> <<"Cube">>, type |-> "MESH"] }

\* Image datablocks that may be loaded before the run: a generated image
\* without a file path, a texture elsewhere in the project, and an image
\* whose (relative) path names the file the X+ tile will be written to.
CandidateImages ==
    { [id |-> 1, filepath |-> EmptyPath],
      [id |-> 2, filepath |-> [rel |-> TRUE, parts |-> << <<"textures">>, <<"wood", ".png">> >>]],
      [id |-> 3, filepath |-> [rel |-> TRUE,
                               parts |-> << <<"skydome_output">>, <<"view_", "X+", ".png">> >>]] }

\* Identities of the datablocks created during the run start above those
\* of the datablocks that may exist before it.
FirstFreeObjectId == Cardinality(CandidateObjects) + 1
FirstFreeImageId == Cardinality(CandidateImages) + 1

VARIABLES
    pc,              \* position in render_horizontal_strip
    scene,           \* "Scene" or "None": bpy.context.scene
    hasWindow,       \* FALSE when bpy.context.window is None (background mode)
    dirStatus,       \* output directory: "exists", "creatable", "uncreatable"
    objects,         \* scene.objects
    active,          \* scene.camera: an object id, 0 for None
    images,          \* bpy.data.images
    nextObj,         \* next fresh object id
    nextImg,         \* next fresh image id
    render,          \* scene.render: resolution_x, resolution_y, filepath
    nodes,           \* scene.node_tree.nodes
    output_filepath, \* local of render_horizontal_strip
    output_ext,      \* local
    num_tiles,       \* local
    vi,              \* index (1-based) of the view the loop is at
    cam_obj,         \* local: id of the camera object of the current view
    created_camera,  \* local
    temp_cameras,    \* local
    temp_files,      \* local
    renders,         \* log of the renderer's invocations
    printed,         \* messages printed so far
    raised,          \* kinds of exception raised so far
    handled,         \* the top-level except block was entered
    propagated,      \* an exception left render_horizontal_strip
    objects0,        \* scene.objects before the run
    images0          \* bpy.data.images before the run

vars == << pc, scene, hasWindow, dirStatus, objects, active, images, nextObj,
           nextImg, render, nodes, output_filepath, output_ext, num_tiles, vi,
           cam_obj, created_camera, temp_cameras, temp_files, renders,
           printed, raised, handled, propagated, objects0, images0 >>

Cameras(objs) == { o \in objs : o.type = "CAMERA" }
Ids(s) == { o.id : o \in s }
MinId(s) == CHOOSE o \in s : \A p \in s : o.id <= p.id

Init ==
    /\ pc = "start"
    /\ scene \in {"Scene", "None"}
    /\ hasWindow \in BOOLEAN
    /\ dirStatus \in {"exists", "creatable", "uncreatable"}
    /\ objects \in { s \in SUBSET CandidateObjects : Cardinality(s) <= MaxInitialObjects }
    /\ active \in {0} \cup Ids(objects)
    /\ images \in { s \in SUBSET CandidateImages : Cardinality(s) <= MaxInitialImages }
    /\ nextObj = FirstFreeObjectId
    /\ nextImg = FirstFreeImageId
    /\ render = [resolution_x |-> 1920, resolution_y |-> 1080, filepath |-> EmptyPath]
    /\ nodes = << >>
    /\ output_filepath = EmptyPath
    /\ output_ext = ""
    /\ num_tiles = 0
    /\ vi = 1
    /\ cam_obj = 0
    /\ created_camera = FALSE
    /\ temp_cameras = << >>
    /\ temp_files = << >>
    /\ renders = << >>
    /\ printed = {}
    /\ raised = {}
    /\ handled = FALSE
    /\ propagated = FALSE
    /\ objects0 = objects
    /\ images0 = images

\* The fields of the state that belong to the host's environment and to the
\* record of the run's start; no step of the script changes them.
Env == << scene, hasWindow, objects0, images0 >>

\* Lines 86-92.  `render = scene.render` is evaluated before the `if not
\* scene` test and outside the try: with no scene it raises AttributeError,
\* which leaves the function.
Start ==
    /\ pc = "start"
    /\ IF scene = "None"
       THEN /\ pc' = "done"
            /\ printed' = printed \cup {"Starting"}
            /\ raised' = raised \cup {"AttributeError"}
            /\ propagated' = TRUE
       ELSE /\ pc' = "reset_nodes"
            /\ printed' = printed \cup {"Starting"}
            /\ UNCHANGED << raised, propagated >>
    /\ UNCHANGED << Env, dirStatus, objects, active, images, nextObj, nextImg,
                    render, nodes, output_filepath, output_ext, num_tiles, vi,
                    cam_obj, created_camera, temp_cameras, temp_files,
                    renders, handled >>

Node(t, i, x, y, img) == [type |-> t, index |-> i, x |-> x, y |-> y, image |-> img]

\* Lines 96-112: clear the node tree, then Render Layers, Composite and
\* View Transform nodes.
ResetNodes ==
    /\ pc = "reset_nodes"
    /\ nodes' = << Node("RLayers", 0, 0, 0, 0),
                   Node("Composite", 0, 300, 0, 0),
                   Node("ViewTransform", 0, 600, 0, 0) >>
    /\ pc' = "setup_camera"
    /\ UNCHANGED << Env, dirStatus, objects, active, images, nextObj, nextImg,
                    render, output_filepath, output_ext, num_tiles, vi,
                    cam_obj, created_camera, temp_cameras, temp_files,
                    renders, printed, raised, handled, propagated >>

\* setup_camera, lines 20-46, called at line 115: the active scene camera
\* if it is a camera, else the first camera of the scene, else a new one.
setup_camera ==
    /\ pc = "setup_camera"
    /\ LET act == { o \in objects : o.id = active /\ o.type = "CAMERA" }
           cams == Cameras(objects)
       IN IF act # {}
          THEN /\ active' = active
               /\ UNCHANGED << objects, nextObj, printed >>
          ELSE IF cams # {}
          THEN /\ active' = MinId(cams).id
               /\ UNCHANGED << objects, nextObj, printed >>
          ELSE /\ objects' = objects \cup
                       { [id |-> nextObj, name |-> <<"Camera">>, type |-> "CAMERA"] }
               /\ active' = nextObj
               /\ nextObj' = nextObj + 1
               /\ printed' = printed \cup {"Creating a new camera."}
    /\ pc' = "set_render_settings"
    /\ UNCHANGED << Env, dirStatus, images, nextImg, render, nodes,
                    output_filepath, output_ext, num_tiles, vi, cam_obj,
                    created_camera, temp_cameras, temp_files, renders,
                    raised, handled, propagated >>

\* set_render_settings, lines 48-57, called at line 116.
set_render_settings ==
    /\ pc = "set_render_settings"
    /\ render' = [render EXCEPT !.resolution_x = resolution_x,
                                !.resolution_y = resolution_y]
    /\ pc' = "set_output_path"
    /\ UNCHANGED << Env, dirStatus, objects, active, images, nextObj, nextImg,
                    nodes, output_filepath, output_ext, num_tiles, vi,
                    cam_obj, created_camera, temp_cameras, temp_files,
                    renders, printed, raised, handled, propagated >>

\* A set_output_path without the fallback of line 70.
OutputDirFor_mut(status) == abspath(output_dir)

\* The directory set_output_path ends up with (lines 62-70).
OutputDirFor(status) ==
    IF status = "uncreatable" THEN abspath(BaseDirPath) ELSE abspath(output_dir)

\* set_output_path, lines 59-80, called at line 117.  os.makedirs either
\* creates the missing directory or raises OSError, which is caught here.
set_output_path ==
    /\ pc = "set_output_path"
    /\ LET filepath == join(OutputDirFor(dirStatus), output_filename)
       IN /\ render' = [render EXCEPT !.filepath = filepath]
          /\ output_filepath' = filepath
    /\ dirStatus' = IF dirStatus = "creatable" THEN "exists" ELSE dirStatus
    /\ printed' = printed \cup
          (CASE dirStatus = "creatable" -> {"Created output directory"}
             [] dirStatus = "uncreatable" -> {"Error creating directory"}
             [] OTHER -> {})
    /\ raised' = IF dirStatus = "uncreatable" THEN raised \cup {"OSError"} ELSE raised
    /\ pc' = "define_views"
    /\ UNCHANGED << Env, objects, active, images, nextObj, nextImg, nodes,
                    output_ext, num_tiles, vi, cam_obj, created_camera,
                    temp_cameras, temp_files, renders, handled, propagated >>

\* Lines 119-150: world colour, num_tiles, the directions list, the output
\* extension and the two tracking lists.
DefineViews ==
    /\ pc = "define_views"
    /\ num_tiles' = resolution_x \div tile_size
    /\ output_ext' = splitext(basename(output_filepath))[2]
    /\ temp_cameras' = << >>
    /\ temp_files' = << >>
    /\ vi' = 1
    /\ pc' = "prepare_camera"
    /\ UNCHANGED << Env, dirStatus, objects, active, images, nextObj, nextImg,
                    render, nodes, output_filepath, cam_obj, created_camera,
                    renders, printed, raised, handled, propagated >>

\* Lines 152-173: use the scene's camera named Camera_<view>, or add one.
PrepareCamera ==
    /\ pc = "prepare_camera"
    /\ LET cname == cam_name(directions[vi].name)
           found == { o \in objects : o.type = "CAMERA" /\ o.name = cname }
       IN IF found # {}
          THEN /\ cam_obj' = MinId(found).id
               /\ created_camera' = FALSE
               /\ UNCHANGED << objects, nextObj >>
          ELSE /\ objects' = objects \cup
                       { [id |-> nextObj, name |-> cname, type |-> "CAMERA"] }
               /\ cam_obj' = nextObj
               /\ created_camera' = TRUE
               /\ nextObj' = nextObj + 1
    /\ active' = cam_obj'
    /\ pc' = "set_view_output"
    /\ UNCHANGED << Env, dirStatus, images, nextImg, render, nodes,
                    output_filepath, output_ext, num_tiles, vi, temp_cameras,
                    temp_files, renders, printed, raised, handled, propagated >>

\* Lines 175-189: the view's file path and the tile resolution.
SetViewOutput ==
    /\ pc = "set_view_output"
    /\ LET view_filepath == join(dirname(output_filepath),
                                 view_filename(directions[vi].name, output_ext))
       IN /\ render' = [resolution_x |-> tile_size, resolution_y |-> tile_size,
                        filepath |-> view_filepath]
          /\ temp_files' = Append(temp_files, view_filepath)
    /\ pc' = "render_view"
    /\ UNCHANGED << Env, dirStatus, objects, active, images, nextObj, nextImg,
                    nodes, output_filepath, output_ext, num_tiles, vi,
                    cam_obj, created_camera, temp_cameras, renders, printed,
                    raised, handled, propagated >>

\* What one call of bpy.ops.render.render(write_still=True) does with the
\* settings r, the scene camera cam and the node tree nds: the entry added
\* to the log of renderer invocations.
RenderCall(r, cam, rot, nds) ==
    [ resolution_x |-> r.resolution_x,
      resolution_y |-> r.resolution_y,
      filepath |-> r.filepath,
      camera |-> cam,
      rot |-> rot,
      kind |-> IF \E n \in 1..Len(nds) : nds[n].type = "Image"
               THEN "composite" ELSE "tile" ]

\* Line 192: render and save the view; the operator may raise.
RenderView ==
    /\ pc = "render_view"
    /\ \E ok \in BOOLEAN :
         IF ok
         THEN /\ renders' = Append(renders, RenderCall(render, active, directions[vi].rot, nodes))
              /\ pc' = "viewport_preview"
              /\ UNCHANGED raised
         ELSE /\ raised' = raised \cup {"RenderError"}
              /\ pc' = "handler"
              /\ UNCHANGED renders
    /\ UNCHANGED << Env, dirStatus, objects, active, images, nextObj, nextImg,
                    render, nodes, output_filepath, output_ext, num_tiles, vi,
                    cam_obj, created_camera, temp_cameras, temp_files,
                    printed, handled, propagated >>

\* Lines 194-200: show the camera in the 3D viewports.  Not inside the inner
\* try: with no window, bpy.context.window.screen raises AttributeError.
ViewportPreview ==
    /\ pc = "viewport_preview"
    /\ IF hasWindow
       THEN /\ pc' = "image_preview"
            /\ UNCHANGED raised
       ELSE /\ raised' = raised \cup {"NoWindow"}
            /\ pc' = "handler"
    /\ UNCHANGED << Env, dirStatus, objects, active, images, nextObj, nextImg,
                    render, nodes, output_filepath, output_ext, num_tiles, vi,
                    cam_obj, created_camera, temp_cameras, temp_files,
                    renders, printed, handled, propagated >>

\* The image datablocks left after dropping those whose path names `path`.
WithoutPath(imgs, path) ==
    { img \in imgs : abspath(img.filepath) # abspath(path) }

\* A preview block without its own handler: the exception reaches the
\* top-level except block.
PreviewFailureTarget_mut(next) == "handler"

\* The inner handler of the two preview blocks (lines 215-216, 298-299):
\* the exception is printed and execution continues after the block.
PreviewFailureTarget(next) == next

\* The body of a preview try block (lines 203-214 and 287-297) for the file
\* `path`: drop the datablocks of that file, load it again, show it.  It
\* may raise before the load or after it; the inner handler swallows that.
Preview(path, next) ==
    \E outcome \in {"ok", "load_fails", "editor_fails"} :
       /\ images' = IF outcome = "load_fails"
                    THEN WithoutPath(images, path)
                    ELSE WithoutPath(images, path) \cup
                            { [id |-> nextImg, filepath |-> path] }
       /\ nextImg' = IF outcome = "load_fails" THEN nextImg ELSE nextImg + 1
       /\ IF outcome = "ok"
          THEN /\ pc' = next
               /\ UNCHANGED << raised, printed >>
          ELSE /\ raised' = raised \cup {"PreviewError"}
               /\ printed' = printed \cup {"Could not preview"}
               /\ pc' = PreviewFailureTarget(next)

\* Lines 201-216: preview the rendered view in the image editor.
ImagePreview ==
    /\ pc = "image_preview"
    /\ Preview(temp_files[vi], "track_camera")
    /\ UNCHANGED << Env, dirStatus, objects, active, render, nodes, nextObj,
                    output_filepath, output_ext, num_tiles, vi, cam_obj,
                    created_camera, temp_cameras, temp_files, renders,
                    handled, propagated >>

\* Lines 218-220 and the loop's advance (line 151).
TrackCamera ==
    /\ pc = "track_camera"
    /\ temp_cameras' = IF created_camera THEN Append(temp_cameras, cam_obj)
                       ELSE temp_cameras
    /\ IF vi < Len(directions)
       THEN /\ vi' = vi + 1
            /\ pc' = "prepare_camera"
       ELSE /\ vi' = vi
            /\ pc' = "restore_resolution"
    /\ UNCHANGED << Env, dirStatus, objects, active, images, nextObj, nextImg,
                    render, nodes, output_filepath, output_ext, num_tiles,
                    cam_obj, created_camera, temp_files, renders, printed,
                    raised, handled, propagated >>

\* Lines 223-225.
RestoreResolution ==
    /\ pc = "restore_resolution"
    /\ render' = [render EXCEPT !.resolution_x = resolution_x,
                                !.resolution_y = resolution_y]
    /\ pc' = "compose"
    /\ UNCHANGED << Env, dirStatus, objects, active, images, nextObj, nextImg,
                    nodes, output_filepath, output_ext, num_tiles, vi,
                    cam_obj, created_camera, temp_cameras, temp_files,
                    renders, printed, raised, handled, propagated >>

\* Lines 242-272: the nodes of tile i (0-based) and the image datablock they
\* use, added to the accumulated [nodes, images, nextImg].
ComposeTile(acc, i, img_path) ==
    LET found == { img \in acc.images : abspath(img.filepath) = abspath(img_path) }
        imgId == IF found # {} THEN MinId(found).id ELSE acc.nextImg
        tile == << Node("Image", i, 0, -i * 300, imgId),
                   Node("Translate", i, TranslateX(i), 0, 0) >>
        alpha == IF i = 0 THEN << >>
                 ELSE << Node("AlphaOver", i, 400 + i * 200, 0, 0) >>
    IN [ nodes |-> acc.nodes \o tile \o alpha,
         images |-> IF found # {} THEN acc.images
                    ELSE acc.images \cup { [id |-> acc.nextImg, filepath |-> img_path] },
         nextImg |-> IF found # {} THEN acc.nextImg ELSE acc.nextImg + 1 ]

RECURSIVE ComposeTiles(_, _, _)
ComposeTiles(acc, i, image_paths) ==
    IF i >= Len(image_paths) THEN acc
    ELSE ComposeTiles(ComposeTile(acc, i, image_paths[i + 1]), i + 1, image_paths)

\* compose_with_nodes, lines 230-279, called at line 283 with temp_files,
\* output_filepath, resolution_x, resolution_y, tile_size.
compose_with_nodes ==
    /\ pc = "compose"
    /\ LET start == [ nodes |-> << Node("Composite", 0, 1000, 0, 0) >>,
                      images |-> images, nextImg |-> nextImg ]
           built == ComposeTiles(start, 0, temp_files)
       IN /\ nodes' = built.nodes
          /\ images' = built.images
          /\ nextImg' = built.nextImg
    /\ render' = [resolution_x |-> resolution_x, resolution_y |-> resolution_y,
                  filepath |-> output_filepath]
    /\ printed' = printed \cup {"Saving final strip image"}
    /\ \E ok \in BOOLEAN :
         IF ok
         THEN /\ renders' = Append(renders,
                      RenderCall(render', active, directions[vi].rot, nodes'))
              /\ pc' = "final_preview"
              /\ UNCHANGED raised
         ELSE /\ raised' = raised \cup {"RenderError"}
              /\ pc' = "handler"
              /\ UNCHANGED renders
    /\ UNCHANGED << Env, dirStatus, objects, active, nextObj, output_filepath,
                    output_ext, num_tiles, vi, cam_obj, created_camera,
                    temp_cameras, temp_files, handled, propagated >>

\* Lines 285-299: preview the final strip in the image editor.
FinalPreview ==
    /\ pc = "final_preview"
    /\ Preview(output_filepath, "cleanup_cameras")
    /\ UNCHANGED << Env, dirStatus, objects, active, render, nodes, nextObj,
                    output_filepath, output_ext, num_tiles, vi, cam_obj,
                    created_camera, temp_cameras, temp_files, renders,
                    handled, propagated >>

\* Lines 301-310: remove every camera tracked in temp_cameras.
CleanupCameras ==
    /\ pc = "cleanup_cameras"
    /\ LET tracked == { temp_cameras[k] : k \in 1..Len(temp_cameras) }
       IN objects' = { o \in objects : o.id \notin tracked }
    /\ pc' = "cleanup_images"
    /\ UNCHANGED << Env, dirStatus, active, images, nextObj, nextImg, render,
                    nodes, output_filepath, output_ext, num_tiles, vi,
                    cam_obj, created_camera, temp_cameras, temp_files,
                    renders, printed, raised, handled, propagated >>

\* Line 313: the paths of the tile files and of the final strip.
used_filepaths ==
    { abspath(temp_files[k]) : k \in 1..Len(temp_files) } \cup { abspath(output_filepath) }

\* Line 316: the test that decides whether an image datablock is removed.
RemovedByCleanup(img) ==
    /\ img.filepath # EmptyPath
    /\ abspath(img.filepath) \notin used_filepaths

\* Lines 312-321: remove the image datablocks the test selects.
CleanupImages ==
    /\ pc = "cleanup_images"
    /\ images' = { img \in images : ~RemovedByCleanup(img) }
    /\ printed' = printed \cup {"Render complete and saved successfully."}
    /\ pc' = "finally"
    /\ UNCHANGED << Env, dirStatus, objects, active, nextObj, nextImg, render,
                    nodes, output_filepath, output_ext, num_tiles, vi,
                    cam_obj, created_camera, temp_cameras, temp_files,
                    renders, raised, handled, propagated >>

\* Lines 323-330: the top-level except block.
Handler ==
    /\ pc = "handler"
    /\ handled' = TRUE
    /\ printed' = printed \cup {"--- An error occurred during script execution ---"}
    /\ pc' = "finally"
    /\ UNCHANGED << Env, dirStatus, objects, active, images, nextObj, nextImg,
                    render, nodes, output_filepath, output_ext, num_tiles, vi,
                    cam_obj, created_camera, temp_cameras, temp_files,
                    renders, raised, propagated >>

\* Lines 333-334: the finally block.
Finally ==
    /\ pc = "finally"
    /\ printed' = printed \cup {"Script finished."}
    /\ pc' = "done"
    /\ UNCHANGED << Env, dirStatus, objects, active, images, nextObj, nextImg,
                    render, nodes, output_filepath, output_ext, num_tiles, vi,
                    cam_obj, created_camera, temp_cameras, temp_files,
                    renders, raised, handled, propagated >>

Next ==
    \/ Start
    \/ ResetNodes
    \/ setup_camera
    \/ set_render_settings
    \/ set_output_path
    \/ DefineViews
    \/ PrepareCamera
    \/ SetViewOutput
    \/ RenderView
    \/ ViewportPreview
    \/ ImagePreview
    \/ TrackCamera
    \/ RestoreResolution
    \/ compose_with_nodes
    \/ FinalPreview
    \/ CleanupCameras
    \/ CleanupImages
    \/ Handler
    \/ Finally

Spec == Init /\ [][Next]_vars

\* ================================================================ claims
TranslateNodes == { n \in 1..Len(nodes) : nodes[n].type = "Translate" }
ImageNodes == { n \in 1..Len(nodes) : nodes[n].type = "Image" }
TileRenders == { k \in 1..Len(renders) : renders[k].kind = "tile" }
CompositeRenders == { k \in 1..Len(renders) : renders[k].kind = "composite" }
Completed == pc = "done" /\ ~handled /\ ~propagated
ViewNames == <<"X+", "X-", "Y+", "Y-", "Z+", "Z-">>

\* C1 (as stated): the X translation of tile i's Translate node equals
\* i * tile_size - resolution_x / 2.
C1_Original ==
    \A n \in TranslateNodes :
        nodes[n].x = nodes[n].index * tile_size - (resolution_x \div 2)

\* C1 (amended): once compose_with_nodes has built the tree there is one
\* Translate node per tile index 0..5, and the X translation of tile i's
\* node equals i * tile_size - 2560, which for the configured values is
\* i * tile_size - (resolution_x - tile_size) / 2.
C1_TranslateOffset ==
    /\ \A n \in TranslateNodes :
          /\ nodes[n].x = nodes[n].index * tile_size - 2560
          /\ nodes[n].x = nodes[n].index * tile_size - ((resolution_x - tile_size) \div 2)
          /\ nodes[n].y = 0
    /\ TranslateNodes # {} => { nodes[n].index : n \in TranslateNodes } = 0..5

C1_Witness == pc = "final_preview" /\ Cardinality(TranslateNodes) = 6

\* C2: the width of the composite render equals num_tiles * tile_size,
\* num_tiles is resolution_x // tile_size, and num_tiles is the number of
\* views rendered and the number of tiles composited.
C2_StripWidth ==
    \A k \in CompositeRenders :
        /\ renders[k].resolution_x = num_tiles * tile_size
        /\ num_tiles = resolution_x \div tile_size
        /\ num_tiles = Len(directions)
        /\ Cardinality(TileRenders) = num_tiles
        /\ Cardinality(ImageNodes) = num_tiles
        /\ Len(temp_files) = num_tiles

C2_Witness == CompositeRenders # {} /\ pc = "cleanup_cameras"

\* The file the k-th view is rendered to, next to the final output file.
ExpectedTilePath(k) ==
    [ rel |-> FALSE,
      parts |-> Append(SubSeq(output_filepath.parts, 1, Len(output_filepath.parts) - 1),
                       <<"view_", ViewNames[k], ".png">>) ]

\* C3: the renderer's invocations are always a prefix of: six tile renders
\* in the order X+, X-, Y+, Y-, Z+, Z-, each at tile_size x tile_size and
\* to the view's own file (pairwise distinct, none the final output path),
\* then one composite render at resolution_x x resolution_y to the output
\* path; a run that ends without an exception reaching the top-level
\* handler has made all seven.
C3_RenderSequence ==
    /\ Len(renders) <= 7
    /\ \A k \in 1..Len(renders) :
          IF k <= 6
          THEN /\ renders[k].kind = "tile"
               /\ renders[k].resolution_x = tile_size
               /\ renders[k].resolution_y = tile_size
               /\ renders[k].filepath = ExpectedTilePath(k)
               /\ renders[k].rot = directions[k].rot
               /\ renders[k].filepath # output_filepath
               /\ \A j \in 1..(k - 1) : renders[j].filepath # renders[k].filepath
          ELSE /\ renders[k].kind = "composite"
               /\ renders[k].resolution_x = resolution_x
               /\ renders[k].resolution_y = resolution_y
               /\ renders[k].filepath = output_filepath
               /\ basename(renders[k].filepath) = output_filename
    /\ Completed => Len(renders) = 7

C3_Witness == Completed /\ Len(renders) = 7 /\ raised = {}

\* C4 (as stated): no exception leaves render_horizontal_strip and every
\* call ends with the finally block's "Script finished.".
C4_Claim ==
    pc = "done" => ~propagated /\ "Script finished." \in printed

\* C5: after set_output_path, if the output directory could not be created
\* the output file path is the project's base directory joined with the
\* file name, else the configured directory joined with it; the failure
\* does not abort the run, and every tile is written to the directory of
\* the output file.
C5_OutputPath ==
    (scene = "Scene" /\ pc \notin {"start", "reset_nodes", "setup_camera",
                                   "set_render_settings", "set_output_path"}) =>
        /\ dirStatus = "uncreatable" =>
              /\ output_filepath = [rel |-> FALSE, parts |-> BlendDir \o <<output_filename>>]
              /\ "OSError" \in raised
        /\ dirStatus # "uncreatable" =>
              /\ dirStatus = "exists"
              /\ output_filepath =
                    [rel |-> FALSE, parts |-> BlendDir \o output_dir.parts \o <<output_filename>>]
              /\ "OSError" \notin raised
        /\ pc = "define_views" => ~handled /\ render.filepath = output_filepath
        /\ \A k \in TileRenders : dirname(renders[k].filepath) = dirname(output_filepath)
        /\ (pc = "done" /\ raised \subseteq {"OSError", "PreviewError"}) =>
              ~handled /\ Cardinality(TileRenders) = 6

C5_Witness ==
    /\ pc = "done"
    /\ dirStatus = "uncreatable"
    /\ Cardinality(TileRenders) = 6
    /\ \A k \in TileRenders : dirname(renders[k].filepath) = [rel |-> FALSE, parts |-> BlendDir]

\* C6: an exception raised while previewing a rendered image is swallowed:
\* it does not take the run to the top-level handler, and a run whose only
\* other exception is the caught OSError of set_output_path still renders
\* all six views, renders the composite and runs the cleanup.
C6_PreviewSwallowed ==
    ("PreviewError" \in raised /\ raised \subseteq {"PreviewError", "OSError"}) =>
        /\ ~handled
        /\ ~propagated
        /\ pc # "handler"
        /\ pc = "done" =>
              /\ Cardinality(TileRenders) = 6
              /\ Cardinality(CompositeRenders) = 1
              /\ "Render complete and saved successfully." \in printed
              /\ \A k \in 1..Len(temp_cameras) : temp_cameras[k] \notin Ids(objects)

C6_Witness ==
    /\ pc = "done"
    /\ "PreviewError" \in raised
    /\ ~handled
    /\ Len(renders) = 7

\* C7 (as stated): with no active scene the run reports "Error: No active
\* scene found." and returns, raising nothing and rendering nothing.
C7_Claim ==
    (scene = "None" /\ pc = "done") =>
        /\ ~propagated
        /\ raised = {}
        /\ "Error: No active scene found." \in printed
        /\ renders = << >>

\* C8 (as stated): after a run that completes without an exception the
\* scene's cameras are those it had before the run.
C8_Claim ==
    Completed => Cameras(objects) = Cameras(objects0)

TileLeft(n) == (render.resolution_x \div 2) + nodes[n].x - (tile_size \div 2)
TileRight(n) == TileLeft(n) + tile_size

\* C10: once composed, tile i occupies exactly [i * tile_size,
\* (i + 1) * tile_size); the six tiles do not overlap, leave no gap and
\* cover exactly [0, resolution_x).
C10_TileLayout ==
    TranslateNodes # {} =>
        /\ Cardinality(TranslateNodes) = 6
        /\ \A n \in TranslateNodes :
              /\ TileLeft(n) = nodes[n].index * tile_size
              /\ TileRight(n) = (nodes[n].index + 1) * tile_size
              /\ 0 <= TileLeft(n) /\ TileRight(n) <= resolution_x
        /\ \A n, m \in TranslateNodes :
              n # m => TileRight(n) <= TileLeft(m) \/ TileRight(m) <= TileLeft(n)
        /\ \A x \in { TileRight(n) : n \in TranslateNodes } :
              x = resolution_x \/ \E m \in TranslateNodes : TileLeft(m) = x
        /\ \E n \in TranslateNodes : TileLeft(n) = 0
        /\ render.resolution_x = resolution_x

C10_Witness == Completed /\ Cardinality(TranslateNodes) = 6 /\ CompositeRenders # {}
====
